---- MODULE Spec2Model ----
(***************************************************************************)
(* Vault Model simulation layer of the balancer SDK.                       *)
(*                                                                         *)
(* VaultModel.multicall replays an ordered batch of pool operations        *)
(* (join, exit, single swap, batch swap) against a pool dictionary and     *)
(* accumulates a per-token delta map.  The orchestrator (VaultModel) is    *)
(* modelled from vaultModel.module.ts.  Its collaborators RelayerModel,    *)
(* PoolModel and PoolsSource are imported from ./relayer, ./poolModel and  *)
(* ./poolSource; they are modelled by their contracts: Pool State Source   *)
(* (4.1), Relayer Ledger (4.2) and Pool Operation Executor (4.3).          *)
(***************************************************************************)
EXTENDS Integers, Sequences, FiniteSets, TLC

\* ------------------------------------------------------------------------
\* Bounds
\* ------------------------------------------------------------------------

\* longest request list passed to multicall
MaxBatch == 2

\* largest literal amount of the requests in WideRequests
MaxAmount == 2

\* ------------------------------------------------------------------------
\* Universe: tokens, pools, output references
\* ------------------------------------------------------------------------

Calls == {1}

\* the pool states the data provider can serve
Versions == {1, 2}

PoolIds == {"P1", "P2"}

Refs == {"R1", "R2"}

NoRef == "none"

NoError == "none"

\* enum ActionType { BatchSwap, Join, Exit, Swap }
ActionType == [BatchSwap |-> 0, Join |-> 1, Exit |-> 2, Swap |-> 3]

\* an amount is a literal or a chained output reference
Lit(n) == [ref |-> NoRef, val |-> n]

Ref(r) == [ref |-> r, val |-> 0]

\* a map with no key: a delta map {}, an empty ledger, a missing cache
EmptyMap == [k \in {} |-> 0]

\* ------------------------------------------------------------------------
\* Pool entities and the pool math capability
\* ------------------------------------------------------------------------

PoolTokens == [P1 |-> <<"A", "B">>, P2 |-> <<"B", "C">>]

PoolBpt == [P1 |-> "BPT1", P2 |-> "BPT2"]

\* type-specific numeric parameter of pool p in provider state v
PoolRate(p, v) == IF p = "P1" THEN v + 1 ELSE v + 2

\* the dictionary the data provider serves in state v
ProviderDict(v) ==
    [p \in PoolIds |-> [tokens |-> PoolTokens[p], bpt |-> PoolBpt[p], rate |-> PoolRate(p, v)]]

JoinMath(pool, amountIn) == amountIn * pool.rate

ExitMath(pool, bptIn) == bptIn * pool.rate

SwapMath(pool, amount) == amount * pool.rate

\* ------------------------------------------------------------------------
\* Relayer ledger
\* ------------------------------------------------------------------------

LedgerWrite(led, r, v) ==
    IF r \in DOMAIN led
    THEN [err |-> "DuplicateReferenceError", led |-> led]
    ELSE [err |-> NoError, led |-> (r :> v) @@ led]

LedgerRead(led, r) ==
    IF r \in DOMAIN led
    THEN [err |-> NoError, val |-> led[r]]
    ELSE [err |-> "UnresolvedReferenceError", val |-> 0]

\* chained amounts are resolved from the ledger, literals are themselves
Resolve(led, amount) ==
    IF amount.ref = NoRef
    THEN [err |-> NoError, val |-> amount.val]
    ELSE LedgerRead(led, amount.ref)

\* write v under r when the request designates a reference
WriteIfRef(led, r, v) ==
    IF r = NoRef THEN [err |-> NoError, led |-> led] ELSE LedgerWrite(led, r, v)

\* ------------------------------------------------------------------------
\* Operation requests
\* ------------------------------------------------------------------------

\* one record type for the four request shapes: shape names the fields that
\* are meant, the others keep the values of BaseReq.  The amount a join or an
\* exit encodes in its user data is the content of encodedUserData.  funds and
\* swapType do not enter the deltas.
BaseReq ==
    [actionType |-> ActionType.Swap, shape |-> "swap", poolId |-> "P1",
     encodedUserData |-> Lit(0),
     request |-> [poolId |-> "P1", assetIn |-> "A", assetOut |-> "A", amount |-> Lit(0)],
     funds |-> "F1", swapType |-> 0,
     outputReference |-> NoRef, swaps |-> <<>>, assets |-> <<>>,
     outputReferences |-> <<>>]

JoinReq(p, amt, r) ==
    [BaseReq EXCEPT !.actionType = ActionType.Join, !.shape = "join",
                    !.poolId = p, !.encodedUserData = amt, !.outputReference = r]

ExitReq(p, amt, refs) ==
    [BaseReq EXCEPT !.actionType = ActionType.Exit, !.shape = "exit",
                    !.poolId = p, !.encodedUserData = amt, !.outputReferences = refs]

SwapReq(p, tIn, tOut, amt, r) ==
    [BaseReq EXCEPT !.actionType = ActionType.Swap, !.shape = "swap",
                    !.request = [poolId |-> p, assetIn |-> tIn, assetOut |-> tOut,
                                 amount |-> amt],
                    !.outputReference = r]

BatchSwapReq(steps, assets, refs) ==
    [BaseReq EXCEPT !.actionType = ActionType.BatchSwap, !.shape = "batchSwap",
                    !.swaps = steps, !.assets = assets, !.outputReferences = refs]

SwapStep(p, i, o, amt) ==
    [poolId |-> p, assetInIndex |-> i, assetOutIndex |-> o, amount |-> amt]

\* the requests a caller builds batches from
RequestPool ==
    { JoinReq("P1", Lit(1), "R1"),
      ExitReq("P1", Ref("R1"), <<NoRef>>),
      SwapReq("P1", "A", "B", Lit(2), "R1"),
      BatchSwapReq(<<SwapStep("P1", 0, 1, Lit(1))>>, <<"A", "B">>, <<NoRef, "R2">>),
      BatchSwapReq(<<SwapStep("P2", 0, 1, Ref("R2"))>>, <<"B", "C">>, <<NoRef, NoRef>>),
      \* a step whose asset index lies outside the declared assets
      BatchSwapReq(<<SwapStep("P1", 0, 2, Lit(1))>>, <<"A", "B">>, <<NoRef, NoRef>>),
      \* two steps, the second of amount zero, BPT1 declared and untouched
      BatchSwapReq(<<SwapStep("P1", 0, 1, Lit(2)), SwapStep("P2", 1, 2, Lit(0))>>,
                   <<"A", "B", "C", "BPT1">>, <<NoRef, NoRef, "R1", NoRef>>),
      \* a pool no dictionary holds
      JoinReq("P3", Lit(1), NoRef),
      \* a tag outside the enum on a swap-shaped request
      [SwapReq("P1", "A", "B", Lit(1), NoRef) EXCEPT !.actionType = 7],
      \* a Join tag on a swap-shaped request
      [SwapReq("P1", "A", "B", Lit(1), NoRef) EXCEPT !.actionType = ActionType.Join] }

Batches == UNION { [1 .. n -> RequestPool] : n \in 0 .. MaxBatch }

\* the two invocations that overlap in time
ConcCalls == {1, 2}

\* the batches of overlapping invocations: all use reference "R1", writing it
\* and reading it back, reading it only, or writing it only
ConcBatches ==
    { <<JoinReq("P1", Lit(1), "R1"), ExitReq("P1", Ref("R1"), <<NoRef>>)>>,
      <<ExitReq("P1", Ref("R1"), <<NoRef>>)>>,
      <<SwapReq("P1", "A", "B", Lit(2), "R1"), JoinReq("P2", Lit(1), NoRef)>> }

\* every amount a request can name: the literals up to MaxAmount and a reference
Amounts == {Lit(n) : n \in 0 .. MaxAmount} \cup {Ref("R1")}

\* the pool ids a request can name, "P3" being in no dictionary
AnyPoolIds == PoolIds \cup {"P3"}

\* batch-swap steps over the assets <<"A", "B">>, asset index 2 lying outside
WideSteps ==
    { SwapStep(p, io[1], io[2], a) :
        p \in {"P1", "P3"}, io \in {<<0, 1>>, <<0, 2>>}, a \in Amounts }

\* single requests of every variant over all pools, amounts and references
WideRequests ==
    { JoinReq(p, a, r) : p \in AnyPoolIds, a \in Amounts, r \in {NoRef, "R1"} }
    \cup { ExitReq(p, a, <<r>>) : p \in AnyPoolIds, a \in Amounts, r \in {NoRef, "R1"} }
    \cup { SwapReq(p, "A", "B", a, r) : p \in AnyPoolIds, a \in Amounts, r \in {NoRef, "R1"} }
    \cup { BatchSwapReq(steps, <<"A", "B">>, <<NoRef, r>>) :
             steps \in UNION { [1 .. n -> WideSteps] : n \in 1 .. 2 }, r \in {NoRef, "R1"} }

\* any one request, followed by an exit that consumes reference "R1"
WideBatches == { <<q, ExitReq("P1", Ref("R1"), <<NoRef>>)>> : q \in WideRequests }

\* ------------------------------------------------------------------------
\* Static mapping helpers
\* ------------------------------------------------------------------------

\* the encoded call descriptors of the transaction-encoding layer; they carry
\* fields the helpers do not read (value, deadline, kind, sender, assets)
Funds == {"F1", "F2"}

Swaps ==
    { [request |-> [poolId |-> p, assetIn |-> "A", assetOut |-> "B", amount |-> a],
       funds |-> f, outputReference |-> r, value |-> 0] :
        p \in AnyPoolIds, a \in Amounts, f \in Funds, r \in {NoRef, "R1"} }

EncodeBatchSwapInputs ==
    { [swapType |-> t, swaps |-> <<s>>, assets |-> <<"A", "B">>, funds |-> f,
       outputReferences |-> <<NoRef, r>>, deadline |-> 0] :
        t \in {0, 1}, s \in WideSteps, f \in Funds, r \in {NoRef, "R1"} }

EncodeJoinPoolInputs ==
    { [poolId |-> p, kind |-> 0, sender |-> f,
       joinPoolRequest |-> [assets |-> <<"A", "B">>, userData |-> a],
       outputReference |-> r] :
        p \in AnyPoolIds, a \in Amounts, f \in Funds, r \in {NoRef, "R1"} }

EncodeExitPoolInputs ==
    { [poolId |-> p, poolKind |-> 0, sender |-> f,
       exitPoolRequest |-> [assets |-> <<"A", "B">>, userData |-> a],
       outputReferences |-> <<r>>] :
        p \in AnyPoolIds, a \in Amounts, f \in Funds, r \in {NoRef, "R1"} }

mapSwapRequest(call) ==
    [BaseReq EXCEPT !.actionType = ActionType.Swap, !.shape = "swap",
                    !.request = call.request, !.funds = call.funds,
                    !.outputReference = call.outputReference]

mapBatchSwapRequest(call) ==
    [BaseReq EXCEPT !.actionType = ActionType.BatchSwap, !.shape = "batchSwap",
                    !.swaps = call.swaps, !.assets = call.assets,
                    !.funds = call.funds, !.swapType = call.swapType,
                    !.outputReferences = call.outputReferences]

mapJoinPoolRequest(call) ==
    [BaseReq EXCEPT !.actionType = ActionType.Join, !.shape = "join",
                    !.poolId = call.poolId,
                    !.encodedUserData = call.joinPoolRequest.userData,
                    !.outputReference = call.outputReference]

\* an exit mapped under the tag of a join
mapExitPoolRequestAsJoin(call) ==
    [BaseReq EXCEPT !.actionType = ActionType.Join, !.shape = "exit",
                    !.poolId = call.poolId,
                    !.encodedUserData = call.exitPoolRequest.userData,
                    !.outputReferences = call.outputReferences]

mapExitPoolRequest(call) ==
    [BaseReq EXCEPT !.actionType = ActionType.Exit, !.shape = "exit",
                    !.poolId = call.poolId,
                    !.encodedUserData = call.exitPoolRequest.userData,
                    !.outputReferences = call.outputReferences]

\* ------------------------------------------------------------------------
\* StablePhantom pool: exit builders
\* ------------------------------------------------------------------------

Exiters == {"U1", "U2"}

ExitExactBPTInParameters ==
    [exiter : Exiters, pool : PoolIds, bptIn : 0 .. MaxAmount, slippage : {0, 1},
     shouldUnwrapNativeAsset : BOOLEAN, wrappedNativeAsset : {"WETH"},
     singleTokenOut : {"none", "A"}]

ExitExactTokensOutParameters ==
    [exiter : Exiters, pool : PoolIds, tokensOut : {<<"A">>, <<"A", "B">>},
     amountsOut : {<<n>> : n \in 0 .. MaxAmount}, slippage : {0, 1},
     wrappedNativeAsset : {"WETH"}]

RecoveryExitParameters ==
    [exiter : Exiters, pool : PoolIds, bptIn : 0 .. MaxAmount, slippage : {0, 1}]

\* throw new Error(message): the builder returns no attributes
Thrown(message) == [threw |-> TRUE, message |-> message, attributes |-> "none"]

\* a builder that returns exit attributes
Returned(params) ==
    [threw |-> FALSE, message |-> "", attributes |-> [to |-> "vault", params |-> params]]

buildExitExactBPTIn(params) == Thrown("Exit type not supported")

buildExitExactTokensOut(params) == Thrown("Exit type not supported")

buildRecoveryExit(params) == Thrown("Exit type not supported")

\* ------------------------------------------------------------------------
\* Pool operation executor
\* ------------------------------------------------------------------------

Fail(e, led, pools) ==
    [err |-> e, tokens |-> <<>>, amounts |-> <<>>, ledger |-> led, pools |-> pools]

Done(tokens, amounts, led, pools) ==
    [err |-> NoError, tokens |-> tokens, amounts |-> amounts, ledger |-> led, pools |-> pools]

doJoin(call, pools, led) ==
    IF call.shape # "join" THEN Fail("UnsupportedActionError", led, pools)
    ELSE IF call.poolId \notin DOMAIN pools THEN Fail("PoolNotFoundError", led, pools)
    ELSE LET pool == pools[call.poolId]
             amt == Resolve(led, call.encodedUserData)
             bptOut == JoinMath(pool, amt.val)
             w == WriteIfRef(led, call.outputReference, bptOut)
         IN IF amt.err # NoError THEN Fail(amt.err, led, pools)
            ELSE IF w.err # NoError THEN Fail(w.err, led, pools)
            ELSE Done(<<pool.tokens[1], pool.bpt>>, <<0 - amt.val, bptOut>>, w.led, pools)

doSingleSwap(call, pools, led) ==
    IF call.shape # "swap" THEN Fail("UnsupportedActionError", led, pools)
    ELSE IF call.request.poolId \notin DOMAIN pools
    THEN Fail("PoolNotFoundError", led, pools)
    ELSE LET pool == pools[call.request.poolId]
             amt == Resolve(led, call.request.amount)
             out == SwapMath(pool, amt.val)
             w == WriteIfRef(led, call.outputReference, out)
         IN IF amt.err # NoError THEN Fail(amt.err, led, pools)
            ELSE IF w.err # NoError THEN Fail(w.err, led, pools)
            ELSE Done(<<call.request.assetOut, call.request.assetIn>>,
                      <<out, 0 - amt.val>>, w.led, pools)

\* the steps of a batch swap from step k on, accumulating one amount per asset
RECURSIVE BatchSteps(_, _, _, _, _)
BatchSteps(swaps, k, pools, led, acc) ==
    IF k > Len(swaps) THEN [err |-> NoError, acc |-> acc]
    ELSE LET s == swaps[k]
             amt == Resolve(led, s.amount)
             out == SwapMath(pools[s.poolId], amt.val)
         IN IF s.poolId \notin DOMAIN pools
            THEN [err |-> "PoolNotFoundError", acc |-> acc]
            ELSE IF amt.err # NoError THEN [err |-> amt.err, acc |-> acc]
            ELSE BatchSteps(swaps, k + 1, pools, led,
                            [acc EXCEPT ![s.assetInIndex + 1] = @ - amt.val,
                                        ![s.assetOutIndex + 1] = @ + out])

\* the final per-asset amounts written to their output references, from asset k on
RECURSIVE WriteRefs(_, _, _, _)
WriteRefs(led, refs, vals, k) ==
    IF k > Len(refs) \/ k > Len(vals) THEN [err |-> NoError, led |-> led]
    ELSE LET w == WriteIfRef(led, refs[k], vals[k])
         IN IF w.err # NoError THEN w ELSE WriteRefs(w.led, refs, vals, k + 1)

doExit(call, pools, led) ==
    IF call.shape # "exit" THEN Fail("UnsupportedActionError", led, pools)
    ELSE IF call.poolId \notin DOMAIN pools THEN Fail("PoolNotFoundError", led, pools)
    ELSE LET pool == pools[call.poolId]
             amt == Resolve(led, call.encodedUserData)
             tokenOut == ExitMath(pool, amt.val)
             w == WriteRefs(led, call.outputReferences, <<tokenOut>>, 1)
         IN IF amt.err # NoError THEN Fail(amt.err, led, pools)
            ELSE IF w.err # NoError THEN Fail(w.err, w.led, pools)
            ELSE Done(<<pool.bpt, pool.tokens[1]>>, <<0 - amt.val, tokenOut>>, w.led, pools)

\* the asset indexing of a batch swap is malformed: some step names an index
\* outside the declared assets
BadIndexing(swaps, assets) ==
    \E i \in 1 .. Len(swaps) :
       \/ swaps[i].assetInIndex \notin 0 .. Len(assets) - 1
       \/ swaps[i].assetOutIndex \notin 0 .. Len(assets) - 1

doBatchSwap(call, pools, led) ==
    IF call.shape # "batchSwap" THEN Fail("UnsupportedActionError", led, pools)
    ELSE IF BadIndexing(call.swaps, call.assets)
    THEN Fail("IndexOutOfRangeError", led, pools)
    ELSE LET steps == BatchSteps(call.swaps, 1, pools, led, [i \in 1 .. Len(call.assets) |-> 0])
             w == WriteRefs(led, call.outputReferences, steps.acc, 1)
         IN IF steps.err # NoError THEN Fail(steps.err, led, pools)
            ELSE IF w.err # NoError THEN Fail(w.err, w.led, pools)
            ELSE Done(call.assets, steps.acc, w.led, pools)

\* ------------------------------------------------------------------------
\* Vault Model: state
\* ------------------------------------------------------------------------

VARIABLES
    cache,          \* PoolsSource: the cached dictionary, EmptyMap when none
    provider,       \* the pool state the external data provider serves now
    rawCalls,       \* per invocation: the request list
    refresh,        \* per invocation: the refresh argument
    pc,             \* per invocation: idle, fetching, cached, loop, awaiting, settled
    idx,            \* per invocation: requests of the loop completed so far
    pools,          \* per invocation: const pools
    relayerModel,   \* per invocation: the ledger of const relayerModel
    deltas,         \* per invocation: const deltas
    pending,        \* per invocation: the awaited executor result
    result,         \* per invocation: how the returned promise settled
    trace,          \* history: the executor operations of this invocation
    fetches,        \* history: fetches this invocation issued to the provider
    cachedAtStart,  \* history: the cache when this invocation began
    obtained,       \* history: the dictionary poolsDictionary gave this invocation
    prevWritten,    \* history: references written by earlier invocations
    applied         \* the last static helper or exit builder called, with its
                    \* argument and its outcome

vars ==
    <<cache, provider, rawCalls, refresh, pc, idx, pools, relayerModel, deltas,
      pending, result, trace, fetches, cachedAtStart, obtained, prevWritten, applied>>

Unsettled == [kind |-> "pending", error |-> NoError, deltas |-> EmptyMap]

\* no static helper or exit builder has been called
NotApplied == [fn |-> "none"]

\* no executor result is awaited
NoResult == Done(<<>>, <<>>, EmptyMap, EmptyMap)

\* the instance after construction, before any of the invocations cs is made
InitOf(cs) ==
    /\ cache = EmptyMap
    /\ provider \in Versions
    /\ rawCalls = [c \in cs |-> <<>>]
    /\ refresh = [c \in cs |-> FALSE]
    /\ pc = [c \in cs |-> "idle"]
    /\ idx = [c \in cs |-> 0]
    /\ pools = [c \in cs |-> EmptyMap]
    /\ relayerModel = [c \in cs |-> EmptyMap]
    /\ deltas = [c \in cs |-> EmptyMap]
    /\ pending = [c \in cs |-> NoResult]
    /\ result = [c \in cs |-> Unsettled]
    /\ trace = [c \in cs |-> <<>>]
    /\ fetches = [c \in cs |-> 0]
    /\ cachedAtStart = [c \in cs |-> EmptyMap]
    /\ obtained = [c \in cs |-> EmptyMap]
    /\ prevWritten = {}
    /\ applied = NotApplied

Init == InitOf(Calls)

\* ------------------------------------------------------------------------
\* Vault Model: updateDeltas and the pieces of multicall
\* ------------------------------------------------------------------------

\* assets.forEach((t, i) => ...) from element i on
RECURSIVE UpdateFrom(_, _, _, _)
UpdateFrom(d, assets, amounts, i) ==
    IF i > Len(assets) THEN d
    ELSE LET t == assets[i]
             d0 == IF t \in DOMAIN d THEN d ELSE (t :> 0) @@ d
         IN UpdateFrom([d0 EXCEPT ![t] = @ + amounts[i]], assets, amounts, i + 1)

\* a merge that keeps only the last amount of a token
updateDeltasOverwrite(d, assets, amounts) ==
    [t \in DOMAIN d \cup {assets[i] : i \in 1 .. Len(assets)} |->
        IF \E i \in 1 .. Len(assets) : assets[i] = t
        THEN amounts[CHOOSE i \in 1 .. Len(assets) :
                        /\ assets[i] = t
                        /\ \A j \in 1 .. Len(assets) : assets[j] = t => j <= i]
        ELSE d[t]]

\* a merge that passes over the assets whose amount is zero
RECURSIVE SkipZeroFrom(_, _, _, _)
SkipZeroFrom(d, assets, amounts, i) ==
    IF i > Len(assets) THEN d
    ELSE IF amounts[i] = 0 THEN SkipZeroFrom(d, assets, amounts, i + 1)
    ELSE LET t == assets[i]
             d0 == IF t \in DOMAIN d THEN d ELSE (t :> 0) @@ d
         IN SkipZeroFrom([d0 EXCEPT ![t] = @ + amounts[i]], assets, amounts, i + 1)

updateDeltasSkipZero(d, assets, amounts) == SkipZeroFrom(d, assets, amounts, 1)

updateDeltas(d, assets, amounts) == UpdateFrom(d, assets, amounts, 1)

\* a ledger kept on the instance instead of built per invocation
SharedRelayerModel(c) == relayerModel[c]

\* const relayerModel = new RelayerModel()
NewRelayerModel(c) == EmptyMap

\* const deltas = {}
NewDeltas(c) == EmptyMap

\* poolsDictionary() called without the argument: its default
DroppedRefresh(r) == FALSE

\* the argument multicall hands to poolsDictionary
PoolsDictionaryArg(r) == r

\* poolsDictionary fetches when asked to refresh or when nothing is cached
NeedsFetch(r) == r \/ cache = EmptyMap

\* a loop that walks the list from its end
ReversedNextCall(c) == Len(rawCalls[c]) - idx[c]

\* for (const call of rawCalls): the request the loop takes next
NextCall(c) == idx[c] + 1

\* a dictionary fetched again for every request
RefetchedPools(c) == ProviderDict(provider)

\* the pools and the ledger an executor operation of invocation c works on
StepPools(c) == pools[c]

\* an executor built on a new ledger for every request
FreshStepLedger(c) == EmptyMap

\* one ledger for the whole instance: a request also sees what the other
\* invocation wrote
InstanceLedger(c) ==
    LET o == CHOOSE x \in DOMAIN relayerModel : x # c \/ DOMAIN relayerModel = {c}
    IN relayerModel[c] @@ relayerModel[o]

StepLedger(c) == relayerModel[c]

\* a loop body without the chain: every request handed to doSingleSwap
DispatchedToSwap(call) == "doSingleSwap"

\* the if / else-if chain on call.actionType
Dispatched(call) ==
    IF call.actionType = ActionType.Join THEN "doJoin"
    ELSE IF call.actionType = ActionType.Exit THEN "doExit"
    ELSE IF call.actionType = ActionType.BatchSwap THEN "doBatchSwap"
    ELSE "doSingleSwap"

Execute(call, dict, led) ==
    CASE Dispatched(call) = "doJoin" -> doJoin(call, dict, led)
      [] Dispatched(call) = "doExit" -> doExit(call, dict, led)
      [] Dispatched(call) = "doBatchSwap" -> doBatchSwap(call, dict, led)
      [] OTHER -> doSingleSwap(call, dict, led)

\* a single swap paired as [assetIn, assetOut]
DeltaAssetsInOut(call, res) ==
    CASE Dispatched(call) \in {"doJoin", "doExit"} -> res.tokens
      [] Dispatched(call) = "doBatchSwap" -> call.assets
      [] OTHER -> <<call.request.assetIn, call.request.assetOut>>

\* the assets multicall pairs the returned amounts with
DeltaAssets(call, res) ==
    CASE Dispatched(call) \in {"doJoin", "doExit"} -> res.tokens
      [] Dispatched(call) = "doBatchSwap" -> call.assets
      [] OTHER -> <<call.request.assetOut, call.request.assetIn>>

\* the loop of multicall over requests k .. n of calls with nothing else
\* running: the error if one is thrown, the ledger and the delta map
RECURSIVE RunFrom(_, _, _, _, _, _)
RunFrom(calls, k, n, dict, led, d) ==
    IF k > n THEN [err |-> NoError, ledger |-> led, deltas |-> d]
    ELSE LET res == Execute(calls[k], dict, led)
         IN IF res.err # NoError
            THEN [err |-> res.err, ledger |-> res.ledger, deltas |-> d]
            ELSE RunFrom(calls, k + 1, n, dict, res.ledger,
                         updateDeltas(d, DeltaAssets(calls[k], res), res.amounts))

\* return deltas
Resolved(d) == [kind |-> "ok", error |-> NoError, deltas |-> d]

\* an error swallowed, the deltas gathered so far returned
PartialResult(e, d) == Resolved(d)

\* a step that throws rejects the promise multicall returned: with deltas d
\* gathered so far, the caller gets error e and no delta map
Rejected(e, d) == [kind |-> "error", error |-> e, deltas |-> EmptyMap]

\* what multicall(calls) settles to when run alone against dictionary dict
RunAlone(calls, dict) ==
    LET r == RunFrom(calls, 1, Len(calls), dict, EmptyMap, EmptyMap)
    IN IF r.err = NoError THEN Resolved(r.deltas) ELSE Rejected(r.err, r.deltas)

\* ------------------------------------------------------------------------
\* Vault Model: actions
\* ------------------------------------------------------------------------

\* multicall(rawCalls, refresh) up to the await of poolsDictionary; the locals
\* of the new activation other than relayerModel are not bound yet
InvokeFrom(c, batches) ==
    /\ pc[c] = "idle"
    /\ \E calls \in batches, r \in BOOLEAN :
          /\ rawCalls' = [rawCalls EXCEPT ![c] = calls]
          /\ refresh' = [refresh EXCEPT ![c] = r]
          /\ IF NeedsFetch(PoolsDictionaryArg(r))
             THEN /\ pc' = [pc EXCEPT ![c] = "fetching"]
                  /\ fetches' = [fetches EXCEPT ![c] = 1]
                  /\ pools' = [pools EXCEPT ![c] = EmptyMap]
                  /\ obtained' = [obtained EXCEPT ![c] = EmptyMap]
             ELSE /\ pc' = [pc EXCEPT ![c] = "cached"]
                  /\ fetches' = [fetches EXCEPT ![c] = 0]
                  /\ pools' = [pools EXCEPT ![c] = cache]
                  /\ obtained' = [obtained EXCEPT ![c] = cache]
    /\ relayerModel' = [relayerModel EXCEPT ![c] = NewRelayerModel(c)]
    /\ prevWritten' = prevWritten \cup DOMAIN relayerModel[c]
    /\ cachedAtStart' = [cachedAtStart EXCEPT ![c] = cache]
    /\ deltas' = [deltas EXCEPT ![c] = EmptyMap]
    /\ pending' = [pending EXCEPT ![c] = NoResult]
    /\ idx' = [idx EXCEPT ![c] = 0]
    /\ trace' = [trace EXCEPT ![c] = <<>>]
    /\ result' = [result EXCEPT ![c] = Unsettled]
    /\ UNCHANGED <<cache, provider, applied>>

Invoke(c) == InvokeFrom(c, Batches)

\* the provider answers: the dictionary is rebuilt and replaces the cache
FetchOk(c) ==
    /\ pc[c] = "fetching"
    /\ cache' = ProviderDict(provider)
    /\ pools' = [pools EXCEPT ![c] = ProviderDict(provider)]
    /\ obtained' = [obtained EXCEPT ![c] = ProviderDict(provider)]
    /\ deltas' = [deltas EXCEPT ![c] = NewDeltas(c)]
    /\ pc' = [pc EXCEPT ![c] = "loop"]
    /\ UNCHANGED <<provider, rawCalls, refresh, idx, relayerModel, pending, result,
                   trace, fetches, cachedAtStart, prevWritten, applied>>

\* a failed fetch that installs the pools it had built so far
PartialDictionary == [p \in {"P1"} |-> ProviderDict(provider)[p]]

\* the cache after a fetch that failed: no partial dictionary is installed
FailedFetchCache == cache

\* the provider fails: nothing is installed, poolsDictionary throws
\* DataSourceError and the await rethrows it out of multicall
FetchFail(c) ==
    /\ pc[c] = "fetching"
    /\ cache' = FailedFetchCache
    /\ result' = [result EXCEPT ![c] = Rejected("DataSourceError", deltas[c])]
    /\ pc' = [pc EXCEPT ![c] = "settled"]
    /\ UNCHANGED <<provider, rawCalls, refresh, idx, pools, relayerModel, deltas,
                   pending, trace, fetches, cachedAtStart, obtained, prevWritten, applied>>

\* multicall resumes with the cached dictionary
CacheHit(c) ==
    /\ pc[c] = "cached"
    /\ deltas' = [deltas EXCEPT ![c] = NewDeltas(c)]
    /\ pc' = [pc EXCEPT ![c] = "loop"]
    /\ UNCHANGED <<cache, provider, rawCalls, refresh, idx, pools, relayerModel, pending,
                   result, trace, fetches, cachedAtStart, obtained, prevWritten, applied>>

\* the loop body up to its await: the executor operation of the next request
Dispatch(c) ==
    /\ pc[c] = "loop"
    /\ idx[c] < Len(rawCalls[c])
    /\ LET k == NextCall(c)
           call == rawCalls[c][k]
           res == Execute(call, StepPools(c), StepLedger(c))
       IN /\ pending' = [pending EXCEPT ![c] =
                            [res EXCEPT !.tokens = DeltaAssets(call, res)]]
          /\ relayerModel' = [relayerModel EXCEPT ![c] = res.ledger]
          /\ pools' = [pools EXCEPT ![c] = res.pools]
          /\ trace' = [trace EXCEPT ![c] = Append(@,
                          [index |-> k, op |-> Dispatched(call), dict |-> StepPools(c),
                           err |-> res.err, tokens |-> DeltaAssets(call, res),
                           amounts |-> res.amounts, before |-> StepLedger(c),
                           after |-> res.ledger])]
    /\ pc' = [pc EXCEPT ![c] = "awaiting"]
    /\ UNCHANGED <<cache, provider, rawCalls, refresh, idx, deltas, result, fetches,
                   cachedAtStart, obtained, prevWritten, applied>>

\* the await returns: this.updateDeltas(deltas, tokens, amounts)
Merge(c) ==
    /\ pc[c] = "awaiting"
    /\ pending[c].err = NoError
    /\ deltas' = [deltas EXCEPT ![c] =
                     updateDeltas(@, pending[c].tokens, pending[c].amounts)]
    /\ idx' = [idx EXCEPT ![c] = @ + 1]
    /\ pc' = [pc EXCEPT ![c] = "loop"]
    /\ UNCHANGED <<cache, provider, rawCalls, refresh, pools, relayerModel, pending,
                   result, trace, fetches, cachedAtStart, obtained, prevWritten, applied>>

\* the await throws: the error leaves multicall
Throw(c) ==
    /\ pc[c] = "awaiting"
    /\ pending[c].err # NoError
    /\ result' = [result EXCEPT ![c] = Rejected(pending[c].err, deltas[c])]
    /\ pc' = [pc EXCEPT ![c] = "settled"]
    /\ UNCHANGED <<cache, provider, rawCalls, refresh, idx, pools, relayerModel, deltas,
                   pending, trace, fetches, cachedAtStart, obtained, prevWritten, applied>>

\* the loop is over: return deltas
Return(c) ==
    /\ pc[c] = "loop"
    /\ idx[c] >= Len(rawCalls[c])
    /\ result' = [result EXCEPT ![c] = Resolved(deltas[c])]
    /\ pc' = [pc EXCEPT ![c] = "settled"]
    /\ UNCHANGED <<cache, provider, rawCalls, refresh, idx, pools, relayerModel, deltas,
                   pending, trace, fetches, cachedAtStart, obtained, prevWritten, applied>>

\* the caller has taken the settled promise: the activation of multicall is
\* gone, only the ledger object it built is still somewhere on the heap
Release(c) ==
    /\ pc[c] = "settled"
    /\ pc' = [pc EXCEPT ![c] = "idle"]
    /\ rawCalls' = [rawCalls EXCEPT ![c] = <<>>]
    /\ refresh' = [refresh EXCEPT ![c] = FALSE]
    /\ idx' = [idx EXCEPT ![c] = 0]
    /\ pools' = [pools EXCEPT ![c] = EmptyMap]
    /\ deltas' = [deltas EXCEPT ![c] = EmptyMap]
    /\ pending' = [pending EXCEPT ![c] = NoResult]
    /\ result' = [result EXCEPT ![c] = Unsettled]
    /\ trace' = [trace EXCEPT ![c] = <<>>]
    /\ fetches' = [fetches EXCEPT ![c] = 0]
    /\ cachedAtStart' = [cachedAtStart EXCEPT ![c] = EmptyMap]
    /\ obtained' = [obtained EXCEPT ![c] = EmptyMap]
    /\ UNCHANGED <<cache, provider, relayerModel, prevWritten, applied>>

\* pool state moves on at the external data provider
ProviderUpdate ==
    /\ \E v \in Versions \ {provider} : provider' = v
    /\ UNCHANGED <<cache, rawCalls, refresh, pc, idx, pools, relayerModel, deltas,
                   pending, result, trace, fetches, cachedAtStart, obtained, prevWritten, applied>>

Next ==
    \/ \E c \in Calls : Invoke(c)
    \/ \E c \in Calls : FetchOk(c)
    \/ \E c \in Calls : FetchFail(c)
    \/ \E c \in Calls : CacheHit(c)
    \/ \E c \in Calls : Dispatch(c)
    \/ \E c \in Calls : Merge(c)
    \/ \E c \in Calls : Throw(c)
    \/ \E c \in Calls : Return(c)
    \/ \E c \in Calls : Release(c)
    \/ ProviderUpdate

Spec == Init /\ [][Next]_vars

\* multicall called with one request of any kind
InvokeWide(c) == InvokeFrom(c, WideBatches)

NextWide ==
    \/ \E c \in Calls : InvokeWide(c)
    \/ \E c \in Calls : FetchOk(c)
    \/ \E c \in Calls : FetchFail(c)
    \/ \E c \in Calls : CacheHit(c)
    \/ \E c \in Calls : Dispatch(c)
    \/ \E c \in Calls : Merge(c)
    \/ \E c \in Calls : Throw(c)
    \/ \E c \in Calls : Return(c)
    \/ \E c \in Calls : Release(c)
    \/ ProviderUpdate

SpecWide == Init /\ [][NextWide]_vars

\* two invocations on one instance, each made once, their steps interleaved
\* at every await
InvokeConc(c) == InvokeFrom(c, ConcBatches)

InitConc == InitOf(ConcCalls)

NextConc ==
    \/ \E c \in ConcCalls : InvokeConc(c)
    \/ \E c \in ConcCalls : FetchOk(c)
    \/ \E c \in ConcCalls : FetchFail(c)
    \/ \E c \in ConcCalls : CacheHit(c)
    \/ \E c \in ConcCalls : Dispatch(c)
    \/ \E c \in ConcCalls : Merge(c)
    \/ \E c \in ConcCalls : Throw(c)
    \/ \E c \in ConcCalls : Return(c)
    \/ ProviderUpdate

SpecConc == InitConc /\ [][NextConc]_vars

\* ------------------------------------------------------------------------
\* The static helpers and the exit builders called on their own
\* ------------------------------------------------------------------------

vaultVars ==
    <<cache, provider, rawCalls, refresh, pc, idx, pools, relayerModel, deltas,
      pending, result, trace, fetches, cachedAtStart, obtained, prevWritten>>

\* helper fn called on argument call: what it returned, and the argument as
\* the helper left it (no helper assigns to its argument)
Call(fn, call, returned) ==
    [fn |-> fn, call |-> call, after |-> call, returned |-> returned]

MapSwapRequest ==
    /\ \E call \in Swaps : applied' = Call("mapSwapRequest", call, mapSwapRequest(call))
    /\ UNCHANGED vaultVars

MapBatchSwapRequest ==
    /\ \E call \in EncodeBatchSwapInputs :
          applied' = Call("mapBatchSwapRequest", call, mapBatchSwapRequest(call))
    /\ UNCHANGED vaultVars

MapJoinPoolRequest ==
    /\ \E call \in EncodeJoinPoolInputs :
          applied' = Call("mapJoinPoolRequest", call, mapJoinPoolRequest(call))
    /\ UNCHANGED vaultVars

MapExitPoolRequest ==
    /\ \E call \in EncodeExitPoolInputs :
          applied' = Call("mapExitPoolRequest", call, mapExitPoolRequest(call))
    /\ UNCHANGED vaultVars

NextMap ==
    \/ MapSwapRequest
    \/ MapBatchSwapRequest
    \/ MapJoinPoolRequest
    \/ MapExitPoolRequest

SpecMap == Init /\ [][NextMap]_vars

BuildExitExactBPTIn ==
    /\ \E params \in ExitExactBPTInParameters :
          applied' = Call("buildExitExactBPTIn", params, buildExitExactBPTIn(params))
    /\ UNCHANGED vaultVars

BuildExitExactTokensOut ==
    /\ \E params \in ExitExactTokensOutParameters :
          applied' = Call("buildExitExactTokensOut", params, buildExitExactTokensOut(params))
    /\ UNCHANGED vaultVars

BuildRecoveryExit ==
    /\ \E params \in RecoveryExitParameters :
          applied' = Call("buildRecoveryExit", params, buildRecoveryExit(params))
    /\ UNCHANGED vaultVars

NextExit ==
    \/ BuildExitExactBPTIn
    \/ BuildExitExactTokensOut
    \/ BuildRecoveryExit

SpecExit == Init /\ [][NextExit]_vars

\* ------------------------------------------------------------------------
\* Vocabulary of the properties
\* ------------------------------------------------------------------------

Tokens == {"A", "B", "C", "BPT1", "BPT2"}

Settled(c) == result[c].kind # "pending"

\* invocation c is past poolsDictionary and inside (or through) its loop
InLoop(c) == pc[c] \in {"loop", "awaiting"}

\* what one executed step contributes to token t: its amounts paired with t
RECURSIVE StepAmount(_, _, _)
StepAmount(step, t, i) ==
    IF i > Len(step.tokens) THEN 0
    ELSE (IF step.tokens[i] = t THEN step.amounts[i] ELSE 0) + StepAmount(step, t, i + 1)

\* what the first n steps of a trace contribute to token t
RECURSIVE StepsAmount(_, _, _)
StepsAmount(tr, t, n) ==
    IF n = 0 THEN 0 ELSE StepsAmount(tr, t, n - 1) + StepAmount(tr[n], t, 1)

Touches(step, t) == \E i \in 1 .. Len(step.tokens) : step.tokens[i] = t

\* d is exactly the sum of the first n steps of tr, starting from no key at all
Accumulates(d, tr, n) ==
    /\ DOMAIN d = {t \in Tokens : \E k \in 1 .. n : Touches(tr[k], t)}
    /\ \A t \in DOMAIN d : d[t] = StepsAmount(tr, t, n)

\* the tag is one of the enum and names the concrete shape of the request
WellTagged(call) ==
    \/ call.actionType = ActionType.Join /\ call.shape = "join"
    \/ call.actionType = ActionType.Exit /\ call.shape = "exit"
    \/ call.actionType = ActionType.Swap /\ call.shape = "swap"
    \/ call.actionType = ActionType.BatchSwap /\ call.shape = "batchSwap"

\* the output references a request consumes and the ones it designates
Reads(call) ==
    CASE call.shape = "batchSwap" ->
            {call.swaps[i].amount.ref : i \in 1 .. Len(call.swaps)} \ {NoRef}
      [] call.shape = "swap" -> {call.request.amount.ref} \ {NoRef}
      [] OTHER -> {call.encodedUserData.ref} \ {NoRef}

Writes(call) ==
    IF call.shape \in {"batchSwap", "exit"}
    THEN {call.outputReferences[i] : i \in 1 .. Len(call.outputReferences)} \ {NoRef}
    ELSE {call.outputReference} \ {NoRef}

\* the executor operation the request went to accepts it up to its ledger use
Executable(call, dict) ==
    /\ \/ Dispatched(call) = "doJoin" /\ call.shape = "join"
       \/ Dispatched(call) = "doExit" /\ call.shape = "exit"
       \/ Dispatched(call) = "doSingleSwap" /\ call.shape = "swap"
       \/ Dispatched(call) = "doBatchSwap" /\ call.shape = "batchSwap"
    /\ call.shape \in {"join", "exit"} => call.poolId \in DOMAIN dict
    /\ call.shape = "swap" => call.request.poolId \in DOMAIN dict
    /\ call.shape = "batchSwap" =>
          \A i \in 1 .. Len(call.swaps) :
             /\ call.swaps[i].poolId \in DOMAIN dict
             /\ call.swaps[i].assetInIndex \in 0 .. Len(call.assets) - 1
             /\ call.swaps[i].assetOutIndex \in 0 .. Len(call.assets) - 1

\* the request of invocation c that trace entry k executed
CallOf(c, k) == rawCalls[c][trace[c][k].index]

\* ------------------------------------------------------------------------
\* Properties
\* ------------------------------------------------------------------------

\* C1: for every request list and every token, the delta map of multicall is
\* the exact sum of what every executed step contributed for that token,
\* starting from an empty map: while the loop runs it is the sum of the steps
\* merged so far, and the map returned is the sum of all steps.
C1_Accumulation ==
    \A c \in Calls :
       /\ InLoop(c) => Accumulates(deltas[c], trace[c], idx[c])
       /\ result[c].kind = "ok" =>
             /\ Len(trace[c]) = Len(rawCalls[c])
             /\ Accumulates(result[c].deltas, trace[c], Len(rawCalls[c]))

\* C1 witness: a returned map holding a token two steps contributed to
C1_Witness ==
    \E c \in Calls, t \in Tokens :
       /\ result[c].kind = "ok"
       /\ Len(trace[c]) = 2
       /\ StepAmount(trace[c][1], t, 1) # 0
       /\ StepAmount(trace[c][2], t, 1) # 0
       /\ result[c].deltas[t] = StepAmount(trace[c][1], t, 1) + StepAmount(trace[c][2], t, 1)

\* C2: the requests of one multicall run in the caller's order, one at a
\* time: the k-th executor operation is that of request k, it starts only
\* when the k-1 requests before it are merged into the delta map, and it
\* reads the ledger as the step before it left it.
C2_InOrder ==
    \A c \in Calls :
       /\ \A k \in 1 .. Len(trace[c]) :
             /\ trace[c][k].index = k
             /\ k > 1 => /\ trace[c][k - 1].err = NoError
                         /\ trace[c][k].before = trace[c][k - 1].after
       /\ pc[c] = "loop" => Len(trace[c]) = idx[c]
       /\ pc[c] = "awaiting" =>
             /\ Len(trace[c]) = idx[c] + 1
             /\ Accumulates(deltas[c], trace[c], Len(trace[c]) - 1)

\* C2 witness: the second request is being executed, the first one merged
C2_Witness ==
    \E c \in Calls :
       /\ pc[c] = "awaiting"
       /\ Len(trace[c]) = 2
       /\ trace[c][2].index = 2
       /\ rawCalls[c][1] # rawCalls[c][2]
       /\ deltas[c] # EmptyMap

\* C3: when a step fails the whole multicall fails with that step's error:
\* the failed step is the last one executed, what it returned is never
\* merged, and the caller gets the error and no delta map.
C3_AbortOnFailure ==
    \A c \in Calls :
       \A k \in 1 .. Len(trace[c]) :
          trace[c][k].err # NoError =>
             /\ k = Len(trace[c])
             /\ idx[c] = k - 1
             /\ pc[c] \in {"awaiting", "settled"}
             /\ pc[c] = "settled" =>
                   /\ result[c].kind = "error"
                   /\ result[c].error = trace[c][k].err
                   /\ result[c].deltas = EmptyMap

\* C3 witness: a call failed at its second request with the deltas of the
\* first one gathered, and the caller got none of them
C3_Witness ==
    \E c \in Calls :
       /\ pc[c] = "settled"
       /\ result[c].kind = "error"
       /\ Len(trace[c]) = 2
       /\ deltas[c] # EmptyMap
       /\ result[c].deltas = EmptyMap

\* C4 (as claimed): a request whose actionType is none of Join, Exit, Swap,
\* BatchSwap, or disagrees with its shape, is never dispatched to an executor
\* operation, and the multicall that reaches it fails with
\* UnsupportedActionError.
C4_FailFast ==
    \A c \in Calls :
       \A k \in 1 .. Len(rawCalls[c]) :
          ~WellTagged(rawCalls[c][k]) =>
             /\ \A j \in 1 .. Len(trace[c]) : trace[c][j].index # k
             /\ result[c].kind # "ok"
             /\ (pc[c] = "settled" /\ result[c].kind = "error" /\ idx[c] = k - 1
                   /\ result[c].error # "DataSourceError") =>
                   result[c].error = "UnsupportedActionError"

\* C5: a call with refresh = false made while a dictionary is cached issues
\* no fetch and works on the cached dictionary; a call with refresh = true,
\* or made while nothing is cached, issues exactly one fetch, and the
\* dictionary that fetch delivers replaces the cache and is the one used.
C5_CacheBehaviour ==
    \A c \in Calls :
       pc[c] # "idle" =>
          IF ~refresh[c] /\ cachedAtStart[c] # EmptyMap
          THEN /\ fetches[c] = 0
               /\ pc[c] # "fetching"
               /\ obtained[c] = cachedAtStart[c]
               /\ cache = cachedAtStart[c]
               /\ \A k \in 1 .. Len(trace[c]) : trace[c][k].dict = cachedAtStart[c]
          ELSE /\ fetches[c] = 1
               /\ (InLoop(c) \/ result[c].kind = "ok" \/ Len(trace[c]) > 0) =>
                     /\ obtained[c] # EmptyMap
                     /\ cache = obtained[c]
                     /\ \A k \in 1 .. Len(trace[c]) : trace[c][k].dict = obtained[c]

\* C5 witness: a call without refresh executes on the cached dictionary while
\* the provider already serves another pool state
C5_Witness ==
    \E c \in Calls :
       /\ pc[c] = "awaiting"
       /\ ~refresh[c]
       /\ fetches[c] = 0
       /\ cachedAtStart[c] # EmptyMap
       /\ trace[c][1].dict = cachedAtStart[c]
       /\ ProviderDict(provider) # cachedAtStart[c]

\* C6: a step that consumes an output reference no earlier step of the same
\* call has written fails with UnresolvedReferenceError: a multicall returns
\* a delta map only if every reference a request reads is written by a
\* request before it, and an executor operation that gets to read an unset
\* reference ends with that error.
C6_OrderSensitivity ==
    \A c \in Calls :
       /\ result[c].kind = "ok" =>
             \A k \in 1 .. Len(rawCalls[c]) :
                Reads(rawCalls[c][k]) \subseteq
                   UNION {Writes(rawCalls[c][j]) : j \in 1 .. k - 1}
       /\ \A k \in 1 .. Len(trace[c]) :
             (/\ Executable(CallOf(c, k), trace[c][k].dict)
              /\ ~(Reads(CallOf(c, k)) \subseteq
                      UNION {Writes(rawCalls[c][j]) : j \in 1 .. trace[c][k].index - 1}))
                => trace[c][k].err = "UnresolvedReferenceError"

\* C6 witness: the consumer placed before its producer, and the call failed
C6_Witness ==
    \E c \in Calls :
       /\ pc[c] = "settled"
       /\ Len(rawCalls[c]) = 2
       /\ Reads(rawCalls[c][1]) \cap Writes(rawCalls[c][2]) # {}
       /\ Len(trace[c]) = 1
       /\ result[c].kind = "error"
       /\ result[c].error = "UnresolvedReferenceError"

\* C7: during one multicall every output reference is written at most once:
\* no two steps that succeed designate the same reference, a step never
\* changes a reference the ledger already holds, and an executor operation
\* that gets to write a reference already written ends with
\* DuplicateReferenceError.
C7_WriteOnce ==
    \A c \in Calls :
       \A k \in 1 .. Len(trace[c]) :
          /\ \A r \in DOMAIN trace[c][k].before :
                /\ r \in DOMAIN trace[c][k].after
                /\ trace[c][k].after[r] = trace[c][k].before[r]
          /\ trace[c][k].err = NoError =>
                \A j \in 1 .. k - 1 : Writes(CallOf(c, j)) \cap Writes(CallOf(c, k)) = {}
          /\ (/\ Executable(CallOf(c, k), trace[c][k].dict)
              /\ Reads(CallOf(c, k)) \subseteq DOMAIN trace[c][k].before
              /\ \E j \in 1 .. k - 1 : Writes(CallOf(c, j)) \cap Writes(CallOf(c, k)) # {})
                => trace[c][k].err = "DuplicateReferenceError"
          /\ (InLoop(c) \/ pc[c] = "settled") /\ k = Len(trace[c]) =>
                relayerModel[c] = trace[c][k].after

\* C7 witness: a second write of a reference failed and the first value stayed
C7_Witness ==
    \E c \in Calls, r \in Refs :
       /\ pc[c] = "settled"
       /\ result[c].kind = "error"
       /\ result[c].error = "DuplicateReferenceError"
       /\ Len(trace[c]) = 2
       /\ r \in Writes(rawCalls[c][1]) \cap Writes(rawCalls[c][2])
       /\ r \in DOMAIN relayerModel[c]
       /\ relayerModel[c][r] = trace[c][1].after[r]

\* C8: the pool dictionary obtained at the start of a multicall is the one
\* every step of that call computes against, unchanged by the joins, exits
\* and swaps before it and by what the provider serves meanwhile; a cached
\* dictionary is always one the provider served, whole.
C8_PoolsImmutable ==
    /\ cache \in {EmptyMap} \cup {ProviderDict(v) : v \in Versions}
    /\ \A c \in Calls :
          /\ InLoop(c) => /\ pools[c] = obtained[c]
                          /\ obtained[c] \in {ProviderDict(v) : v \in Versions}
          /\ \A k \in 1 .. Len(trace[c]) : trace[c][k].dict = obtained[c]

\* C8 witness: a step runs after a successful join of the same call while
\* the provider serves another pool state than the one obtained
C8_Witness ==
    \E c \in Calls :
       /\ pc[c] = "awaiting"
       /\ Len(trace[c]) = 2
       /\ trace[c][1].op = "doJoin"
       /\ trace[c][1].err = NoError
       /\ trace[c][2].err = NoError
       /\ trace[c][2].dict = obtained[c]
       /\ ProviderDict(provider) # obtained[c]

\* C9: every multicall starts with an empty ledger and an empty delta map:
\* the ledger holds nothing before the first step, afterwards only references
\* the steps of this invocation designate, and the map returned is the sum
\* of this invocation's steps alone.
C9_FreshPerCall ==
    \A c \in Calls :
       /\ pc[c] \in {"fetching", "cached"} => relayerModel[c] = EmptyMap
       /\ pc[c] = "loop" /\ idx[c] = 0 =>
             /\ relayerModel[c] = EmptyMap
             /\ deltas[c] = EmptyMap
       /\ Len(trace[c]) > 0 => trace[c][1].before = EmptyMap
       /\ pc[c] # "idle" =>
             DOMAIN relayerModel[c] \subseteq
                UNION {Writes(CallOf(c, k)) : k \in 1 .. Len(trace[c])}
       /\ result[c].kind = "ok" =>
             Accumulates(result[c].deltas, trace[c], Len(trace[c]))

\* C9 witness: a reference an earlier invocation wrote is unset in this one
C9_Witness ==
    \E c \in Calls, r \in Refs :
       /\ r \in prevWritten
       /\ pc[c] = "settled"
       /\ result[c].kind = "error"
       /\ result[c].error = "UnresolvedReferenceError"
       /\ r \in Reads(CallOf(c, Len(trace[c])))
       /\ r \notin DOMAIN relayerModel[c]

\* a batch swap A -> B in P1 whose output reference feeds a batch swap
\* B -> C in P2
ChainedSwaps(calls) ==
    /\ Len(calls) = 2
    /\ \A k \in 1 .. 2 : /\ WellTagged(calls[k])
                         /\ calls[k].shape = "batchSwap"
                         /\ Len(calls[k].swaps) = 1
                         /\ calls[k].swaps[1].assetInIndex \in 0 .. Len(calls[k].assets) - 1
                         /\ calls[k].swaps[1].assetOutIndex \in 0 .. Len(calls[k].assets) - 1
    /\ LET s1 == calls[1].swaps[1]
           s2 == calls[2].swaps[1]
       IN /\ s1.poolId = "P1"
          /\ calls[1].assets[s1.assetInIndex + 1] = "A"
          /\ calls[1].assets[s1.assetOutIndex + 1] = "B"
          /\ s1.amount.ref = NoRef
          /\ s1.amount.val > 0
          /\ calls[1].outputReferences[s1.assetOutIndex + 1] # NoRef
          /\ s2.poolId = "P2"
          /\ calls[2].assets[s2.assetInIndex + 1] = "B"
          /\ calls[2].assets[s2.assetOutIndex + 1] = "C"
          /\ s2.amount.ref = calls[1].outputReferences[s1.assetOutIndex + 1]

\* C10: a batch swap A -> B in pool P1 chained by output reference into
\* B -> C in pool P2 returns a delta map with A negative, C positive and the
\* intermediate asset B exactly zero.
C10_ChainedSwap ==
    \A c \in Calls :
       (/\ ChainedSwaps(rawCalls[c])
        /\ pc[c] = "settled"
        /\ Settled(c)
        /\ result[c].error # "DataSourceError") =>
          /\ result[c].kind = "ok"
          /\ {"A", "B", "C"} \subseteq DOMAIN result[c].deltas
          /\ result[c].deltas["A"] < 0
          /\ result[c].deltas["C"] > 0
          /\ result[c].deltas["B"] = 0

\* C10 witness: the chained batch swaps returned their delta map
C10_Witness ==
    \E c \in Calls :
       /\ ChainedSwaps(rawCalls[c])
       /\ pc[c] = "settled"
       /\ result[c].kind = "ok"
       /\ result[c].deltas["B"] = 0
       /\ trace[c][2].amounts[1] < 0

\* the uses of asset index i (from 1) of a batch swap by its steps: the steps
\* that take it in and the steps that give it out
UsesOf(call, i) ==
    {<<j, "in">> : j \in {n \in 1 .. Len(call.swaps) : call.swaps[n].assetInIndex = i - 1}}
       \cup
    {<<j, "out">> : j \in {n \in 1 .. Len(call.swaps) : call.swaps[n].assetOutIndex = i - 1}}

\* the amount a use of an asset moves: what the step takes in, or what the
\* pool math gives out for it, with the step's amount resolved in ledger led
UseAmount(call, dict, led, u) ==
    LET s == call.swaps[u[1]]
        amt == Resolve(led, s.amount).val
    IN IF u[2] = "in" THEN amt ELSE SwapMath(dict[s.poolId], amt)

\* trace entry k of invocation c is a batch swap that went through
BatchSwapDone(c, k) ==
    /\ trace[c][k].op = "doBatchSwap"
    /\ trace[c][k].err = NoError

\* step k of invocation c moves token t: a batch swap step swaps it, or a
\* join, an exit or a single swap returns an amount for it
Moves(c, k, t) ==
    IF trace[c][k].op = "doBatchSwap"
    THEN \E i \in 1 .. Len(CallOf(c, k).assets) :
            /\ CallOf(c, k).assets[i] = t
            /\ UsesOf(CallOf(c, k), i) # {}
    ELSE Touches(trace[c][k], t)

\* what C11 says of every batch swap but for the non-zero part: one amount
\* per declared asset, paired by index; every declared asset a key of the
\* delta map once the step is merged; a declared asset no step of any request
\* moves is zero in the map returned
BatchSwapPerAsset(c, k) ==
    LET call == CallOf(c, k)
    IN /\ trace[c][k].tokens = call.assets
       /\ Len(trace[c][k].amounts) = Len(call.assets)
       /\ \A i \in 1 .. Len(call.assets) :
             /\ UsesOf(call, i) = {} => trace[c][k].amounts[i] = 0
             /\ k <= idx[c] => call.assets[i] \in DOMAIN deltas[c]
             /\ result[c].kind = "ok" =>
                   /\ call.assets[i] \in DOMAIN result[c].deltas
                   /\ (\A j \in 1 .. Len(trace[c]) : ~Moves(c, j, call.assets[i])) =>
                         result[c].deltas[call.assets[i]] = 0

\* C11 (as claimed): a batch swap contributes one signed amount per declared
\* asset, paired by index; every declared asset is a key of the returned
\* map, every asset a step swaps has a non-zero contribution, and a declared
\* asset no step touches is exactly zero.
C11_Original ==
    \A c \in Calls :
       \A k \in 1 .. Len(trace[c]) :
          BatchSwapDone(c, k) =>
             /\ BatchSwapPerAsset(c, k)
             /\ \A i \in 1 .. Len(CallOf(c, k).assets) :
                   UsesOf(CallOf(c, k), i) # {} => trace[c][k].amounts[i] # 0

\* C11 (amended): as claimed, but the non-zero part only for an asset that
\* exactly one step uses, with a non-zero amount taken in or given out; an
\* asset swapped by a step of amount zero contributes zero.
C11_BatchSwapPerAsset ==
    \A c \in Calls :
       \A k \in 1 .. Len(trace[c]) :
          BatchSwapDone(c, k) =>
             /\ BatchSwapPerAsset(c, k)
             /\ \A i \in 1 .. Len(CallOf(c, k).assets) :
                   \A u \in UsesOf(CallOf(c, k), i) :
                      (/\ UsesOf(CallOf(c, k), i) = {u}
                       /\ UseAmount(CallOf(c, k), trace[c][k].dict, trace[c][k].before, u) # 0)
                         => trace[c][k].amounts[i] # 0

\* C11 witness: a returned map with a swapped asset, a declared asset that
\* nothing touched at zero, and an asset swapped by a zero-amount step at zero
C11_Witness ==
    \E c \in Calls :
       /\ pc[c] = "settled"
       /\ result[c].kind = "ok"
       /\ Len(trace[c]) = 1
       /\ BatchSwapDone(c, 1)
       /\ \E i, j, n \in 1 .. Len(rawCalls[c][1].assets) :
             /\ UsesOf(rawCalls[c][1], i) = {}
             /\ result[c].deltas[rawCalls[c][1].assets[i]] = 0
             /\ Cardinality(UsesOf(rawCalls[c][1], j)) = 1
             /\ result[c].deltas[rawCalls[c][1].assets[j]] # 0
             /\ UsesOf(rawCalls[c][1], n) # {}
             /\ result[c].deltas[rawCalls[c][1].assets[n]] = 0

\* trace entry k of invocation c is a batch swap given to doBatchSwap
IsBatchSwap(c, k) ==
    /\ trace[c][k].op = "doBatchSwap"
    /\ CallOf(c, k).shape = "batchSwap"

\* trace entry k failed and ended invocation c: its error was not merged, no
\* later request was executed, and the caller gets that error and no delta map
Aborts(c, k) ==
    /\ trace[c][k].err # NoError
    /\ k = Len(trace[c])
    /\ idx[c] = k - 1
    /\ pc[c] \in {"awaiting", "settled"}
    /\ Accumulates(deltas[c], trace[c], k - 1)
    /\ pc[c] = "settled" =>
          result[c] = [kind |-> "error", error |-> trace[c][k].err, deltas |-> EmptyMap]

\* C12: a batch swap in which some step names an asset index outside the
\* declared asset list fails with IndexOutOfRangeError, whatever its other
\* steps are, and that failure ends the enclosing multicall: nothing of the
\* batch swap is written or merged, no later request is executed and the
\* caller gets IndexOutOfRangeError.
C12_IndexOutOfRange ==
    \A c \in Calls :
       \A k \in 1 .. Len(trace[c]) :
          (IsBatchSwap(c, k) /\ BadIndexing(CallOf(c, k).swaps, CallOf(c, k).assets)) =>
             /\ trace[c][k].err = "IndexOutOfRangeError"
             /\ trace[c][k].after = trace[c][k].before
             /\ Aborts(c, k)

\* C12 witness: a two-step batch swap whose first step is in range and whose
\* second step is not has ended a multicall that had a request left
C12_Witness ==
    \E c \in Calls :
       /\ pc[c] = "settled"
       /\ result[c].error = "IndexOutOfRangeError"
       /\ Len(rawCalls[c]) = 2
       /\ Len(trace[c]) = 1
       /\ Len(rawCalls[c][1].swaps) = 2
       /\ ~BadIndexing(<<rawCalls[c][1].swaps[1]>>, rawCalls[c][1].assets)
       /\ BadIndexing(<<rawCalls[c][1].swaps[2]>>, rawCalls[c][1].assets)

\* trace entry k of invocation c is a single swap that doSingleSwap executed
SingleSwapDone(c, k) ==
    /\ trace[c][k].op = "doSingleSwap"
    /\ CallOf(c, k).shape = "swap"
    /\ trace[c][k].err = NoError

\* the amount the swap of trace entry k takes in, a chained one resolved
SwapAmountIn(c, k) == Resolve(trace[c][k].before, CallOf(c, k).request.amount).val

\* the two entries of the single swap of trace entry k: assetOut first with
\* what the pool gives out, assetIn second with what it takes in, negated;
\* once merged both assets are keys of the delta map
SwapEntries(c, k) ==
    LET step == trace[c][k]
        req == CallOf(c, k).request
    IN /\ step.tokens = <<req.assetOut, req.assetIn>>
       /\ Len(step.amounts) = 2
       /\ step.amounts[1] = SwapMath(step.dict[req.poolId], SwapAmountIn(c, k))
       /\ step.amounts[2] = 0 - SwapAmountIn(c, k)
       /\ (InLoop(c) /\ idx[c] >= k) => {req.assetOut, req.assetIn} \subseteq DOMAIN deltas[c]
       /\ result[c].kind = "ok" => {req.assetOut, req.assetIn} \subseteq DOMAIN result[c].deltas

\* C13 as stated: every single swap contributes two entries [assetOut, assetIn],
\* the first positive and the second negative.
C13_Original ==
    \A c \in Calls :
       \A k \in 1 .. Len(trace[c]) :
          SingleSwapDone(c, k) =>
             /\ SwapEntries(c, k)
             /\ trace[c][k].amounts[1] > 0
             /\ trace[c][k].amounts[2] < 0

\* C13: a single swap contributes exactly two entries to the delta map, in the
\* order [assetOut, assetIn]: the first returned amount is accumulated under
\* assetOut and is never negative (user receives), the second under assetIn
\* and is never positive (user pays); both are non-zero exactly when the amount
\* swapped is non-zero.  Joins and exits follow the same convention: what the
\* user pays is not positive, what the user receives is not negative.
C13_SingleSwapEntries ==
    \A c \in Calls :
       \A k \in 1 .. Len(trace[c]) :
          /\ SingleSwapDone(c, k) =>
                /\ SwapEntries(c, k)
                /\ trace[c][k].amounts[1] >= 0
                /\ trace[c][k].amounts[2] <= 0
                /\ SwapAmountIn(c, k) # 0 =>
                      trace[c][k].amounts[1] > 0 /\ trace[c][k].amounts[2] < 0
                /\ SwapAmountIn(c, k) = 0 =>
                      trace[c][k].amounts[1] = 0 /\ trace[c][k].amounts[2] = 0
          /\ (trace[c][k].op \in {"doJoin", "doExit"} /\ trace[c][k].err = NoError) =>
                trace[c][k].amounts[1] <= 0 /\ trace[c][k].amounts[2] >= 0

\* C13 witness: a single swap of a non-zero amount has been merged, its
\* assetOut credited and its assetIn debited in the delta map
C13_Witness ==
    \E c \in Calls :
       /\ InLoop(c)
       /\ idx[c] = 1
       /\ SingleSwapDone(c, 1)
       /\ deltas[c][CallOf(c, 1).request.assetOut] > 0
       /\ deltas[c][CallOf(c, 1).request.assetIn] < 0

\* the pool id of a join, exit or single swap request
RequestPoolId(call) == IF call.shape = "swap" THEN call.request.poolId ELSE call.poolId

\* trace entry k of invocation c is a well-tagged join, exit or single swap
\* naming a pool the dictionary of that step does not hold
UnknownPool(c, k) ==
    /\ WellTagged(CallOf(c, k))
    /\ CallOf(c, k).shape \in {"join", "exit", "swap"}
    /\ RequestPoolId(CallOf(c, k)) \notin DOMAIN trace[c][k].dict

\* C14: a join, exit or swap request whose pool id is not a key of the pool
\* dictionary fails with PoolNotFoundError: the ledger is left as it was (no
\* output reference written), no delta is merged for it, no later request is
\* executed and the caller gets PoolNotFoundError.
C14_PoolNotFound ==
    \A c \in Calls :
       \A k \in 1 .. Len(trace[c]) :
          UnknownPool(c, k) =>
             /\ trace[c][k].err = "PoolNotFoundError"
             /\ trace[c][k].after = trace[c][k].before
             /\ Aborts(c, k)

\* C14 witness: an exit from an unknown pool that designates reference "R1"
\* has ended a multicall with a request left, and "R1" is not in the ledger
C14_Witness ==
    \E c \in Calls :
       /\ pc[c] = "settled"
       /\ result[c].error = "PoolNotFoundError"
       /\ Len(trace[c]) = 1
       /\ Len(rawCalls[c]) = 2
       /\ UnknownPool(c, 1)
       /\ CallOf(c, 1).shape = "exit"
       /\ Writes(CallOf(c, 1)) = {"R1"}
       /\ "R1" \notin DOMAIN relayerModel[c]

\* C15: when the provider fails during a fetch, poolsDictionary fails with
\* DataSourceError and the cache is exactly what it was before the call; the
\* multicall that asked for the fetch rejects with that error having executed
\* no request, merged no delta and written no reference.  No other failure of
\* multicall carries DataSourceError, and a multicall that settles without
\* having executed the first of its requests failed this way.
C15_DataSourceError ==
    \A c \in Calls :
       /\ (pc[c] = "settled" /\ trace[c] = <<>> /\ Len(rawCalls[c]) > 0) =>
             result[c].error = "DataSourceError"
       /\ (pc[c] = "settled" /\ result[c].error = "DataSourceError") =>
             /\ result[c] = [kind |-> "error", error |-> "DataSourceError",
                             deltas |-> EmptyMap]
             /\ fetches[c] = 1
             /\ cache = cachedAtStart[c]
             /\ trace[c] = <<>>
             /\ idx[c] = 0
             /\ deltas[c] = EmptyMap
             /\ relayerModel[c] = EmptyMap
       /\ \A k \in 1 .. Len(trace[c]) : trace[c][k].err # "DataSourceError"

\* C15 witness: a refreshing multicall with requests failed at its fetch and
\* the dictionary cached before, by now stale, is still the cache
C15_Witness ==
    \E c \in Calls :
       /\ pc[c] = "settled"
       /\ result[c].error = "DataSourceError"
       /\ Len(rawCalls[c]) > 0
       /\ refresh[c]
       /\ cache # EmptyMap
       /\ cache # ProviderDict(provider)

\* C16: when two invocations of multicall on one instance interleave at their
\* awaits, the ledger and the delta map of each stay its own: inside its loop
\* an invocation holds exactly the ledger and the deltas its own first
\* requests produce against the dictionary it obtained, and once it has got a
\* dictionary it settles to what it would settle to run alone against that
\* dictionary, whatever the other invocation did in between.
C16_Isolation ==
    \A c \in ConcCalls :
       /\ InLoop(c) =>
             LET r == RunFrom(rawCalls[c], 1, idx[c], obtained[c], EmptyMap, EmptyMap)
             IN /\ r.err = NoError
                /\ deltas[c] = r.deltas
                /\ pools[c] = obtained[c]
                /\ pc[c] = "loop" => relayerModel[c] = r.ledger
       /\ (pc[c] = "settled" /\ result[c].error # "DataSourceError") =>
             result[c] = RunAlone(rawCalls[c], obtained[c])
       /\ (pc[c] = "settled" /\ result[c].error = "DataSourceError") =>
             fetches[c] = 1 /\ trace[c] = <<>>

\* C16 witness: both invocations are suspended in their second request, each
\* having written its own value under "R1", the second one working on the
\* dictionary the first one fetched into the shared cache
C16_Witness ==
    /\ pc[1] = "awaiting" /\ pc[2] = "awaiting"
    /\ idx[1] = 1 /\ idx[2] = 1
    /\ fetches[1] = 1 /\ fetches[2] = 0
    /\ obtained[2] # EmptyMap
    /\ "R1" \in DOMAIN relayerModel[1]
    /\ "R1" \in DOMAIN relayerModel[2]
    /\ relayerModel[1]["R1"] # relayerModel[2]["R1"]

\* the output references request q reads or designates
RefsOf(q) == Reads(q) \cup Writes(q)

\* no request of calls reads or writes a reference another request of calls
\* reads or writes
Independent(calls) ==
    \A i, j \in 1 .. Len(calls) : i # j => RefsOf(calls[i]) \cap RefsOf(calls[j]) = {}

\* the orders n requests can be put in
Perms(n) == {f \in [1 .. n -> 1 .. n] : \A i, j \in 1 .. n : f[i] = f[j] => i = j}

Permute(calls, f) == [i \in 1 .. Len(calls) |-> calls[f[i]]]

\* C17: for a batch in which no request reads or writes an output reference
\* that another request reads or writes, multicall settles the same way for
\* every order of the requests against the same pool dictionary: it returns a
\* delta map for all orders or for none, and the map returned has the same
\* keys and the same amounts.
C17_PermutationInvariant ==
    \A c \in Calls :
       (/\ pc[c] = "settled"
        /\ result[c].error # "DataSourceError"
        /\ Independent(rawCalls[c])) =>
          \A f \in Perms(Len(rawCalls[c])) :
             LET other == RunAlone(Permute(rawCalls[c], f), obtained[c])
             IN /\ result[c].kind = other.kind
                /\ result[c].deltas = other.deltas

\* C17 witness: two different requests sharing no reference have both been
\* executed, both moved a same token, and a delta map was returned
C17_Witness ==
    \E c \in Calls, t \in Tokens :
       /\ pc[c] = "settled"
       /\ result[c].kind = "ok"
       /\ Len(rawCalls[c]) = 2
       /\ rawCalls[c][1] # rawCalls[c][2]
       /\ Independent(rawCalls[c])
       /\ StepAmount(trace[c][1], t, 1) # 0
       /\ StepAmount(trace[c][2], t, 1) # 0
       /\ StepAmount(trace[c][1], t, 1) # StepAmount(trace[c][2], t, 1)

\* sequence s without its element i
RemoveAt(s, i) == [j \in 1 .. Len(s) - 1 |-> IF j < i THEN s[j] ELSE s[j + 1]]

\* the batch swap call without its step i
WithoutStep(call, i) == [call EXCEPT !.swaps = RemoveAt(@, i)]

\* step i of the batch swap call has the literal amount zero, so depends on no
\* output reference
ZeroStep(call, i) == call.swaps[i].amount = Lit(0)

\* step i of call names a pool of dict and assets of the declared list
ValidStep(call, dict, i) ==
    /\ call.swaps[i].poolId \in DOMAIN dict
    /\ ~BadIndexing(<<call.swaps[i]>>, call.assets)

\* the batch swap of trace entry k ended as it would have without its step i:
\* same error or same per-asset amounts, same ledger, and merged alone the
\* delta map holds exactly the amounts of the other steps
SameWithout(c, k, i) ==
    LET step == trace[c][k]
        call == CallOf(c, k)
        rest == Execute(WithoutStep(call, i), step.dict, step.before)
    IN /\ step.err = rest.err
       /\ step.amounts = rest.amounts
       /\ step.after = rest.ledger
       /\ (k = 1 /\ InLoop(c) /\ idx[c] = 1) =>
             Accumulates(deltas[c], <<[tokens |-> call.assets, amounts |-> rest.amounts]>>, 1)

VariantOp ==
    [mapSwapRequest |-> "doSingleSwap", mapBatchSwapRequest |-> "doBatchSwap",
     mapJoinPoolRequest |-> "doJoin", mapExitPoolRequest |-> "doExit"]

\* the actionType of each helper's variant
VariantTag ==
    [mapSwapRequest |-> ActionType.Swap, mapBatchSwapRequest |-> ActionType.BatchSwap,
     mapJoinPoolRequest |-> ActionType.Join, mapExitPoolRequest |-> ActionType.Exit]

\* the request returned holds the fields of the call it was mapped from
CopiesFields(fn, call, q) ==
    CASE fn = "mapSwapRequest" ->
            /\ q.request = call.request
            /\ q.funds = call.funds
            /\ q.outputReference = call.outputReference
      [] fn = "mapBatchSwapRequest" ->
            /\ q.swaps = call.swaps
            /\ q.assets = call.assets
            /\ q.funds = call.funds
            /\ q.swapType = call.swapType
            /\ q.outputReferences = call.outputReferences
      [] fn = "mapJoinPoolRequest" ->
            /\ q.poolId = call.poolId
            /\ q.encodedUserData = call.joinPoolRequest.userData
            /\ q.outputReference = call.outputReference
      [] fn = "mapExitPoolRequest" ->
            /\ q.poolId = call.poolId
            /\ q.encodedUserData = call.exitPoolRequest.userData
            /\ q.outputReferences = call.outputReferences

\* C19: each static mapping helper returns a request whose actionType is the
\* variant of the helper and whose other fields are the fields of the call
\* copied unchanged, and leaves the call as it was; so the if / else-if chain of
\* multicall sends the mapped request to the executor operation of that
\* variant, which takes it as a request of its own shape.
C19_MappingHelpers ==
    applied.fn \in DOMAIN VariantOp =>
       /\ applied.returned.actionType = VariantTag[applied.fn]
       /\ CopiesFields(applied.fn, applied.call, applied.returned)
       /\ applied.after = applied.call
       /\ WellTagged(applied.returned)
       /\ Dispatched(applied.returned) = VariantOp[applied.fn]
       /\ Execute(applied.returned, ProviderDict(provider), EmptyMap).err
             # "UnsupportedActionError"

\* C19 witness: mapExitPoolRequest has mapped an exit that designates "R1"
C19_Witness ==
    /\ applied.fn = "mapExitPoolRequest"
    /\ applied.call.outputReferences = <<"R1">>
    /\ applied.returned.actionType = ActionType.Exit
    /\ applied.returned.outputReferences = <<"R1">>

\* C20: for the StablePhantom pool type every exit builder, whatever its
\* parameters, throws the error 'Exit type not supported' and returns no exit
\* attributes.
C20_ExitNotSupported ==
    applied.fn \in {"buildExitExactBPTIn", "buildExitExactTokensOut", "buildRecoveryExit"} =>
       /\ applied.returned.threw
       /\ applied.returned.message = "Exit type not supported"
       /\ applied.returned.attributes = "none"

\* C20 witness: buildRecoveryExit was called with a non-zero bptIn and threw
C20_Witness ==
    /\ applied.fn = "buildRecoveryExit"
    /\ applied.call.bptIn > 0
    /\ applied.returned.threw

====
